---- MODULE Spec2Model ----
(***************************************************************************)
(* score.shell: the facade ConfiguredShellModule.__call__, the scoped      *)
(* environment of _create_env, the name resolution over the parsed         *)
(* expression, and the backend protocol of Shell.spawn.                    *)
(*                                                                         *)
(* A dotted name 'a.b.c' is the sequence of its segments <<"a","b","c">>;  *)
(* it contains a dot iff it has more than one segment.  The environment    *)
(* mapping is a function whose domain is the set of bound names.           *)
(***************************************************************************)
EXTENDS Integers, Sequences, FiniteSets, TLC

VARIABLES ctx, callbacks, backend, autoinstall, installed,
          ncalls, command, pc, env, handed, i, node, exc, result, log, prev

vars == <<ctx, callbacks, backend, autoinstall, installed,
          ncalls, command, pc, env, handed, i, node, exc, result, log, prev>>

config == <<ctx, callbacks, backend, autoinstall>>

\* ---------------------------------------------------------------- bounds
MaxCalls == 2
MaxCallbacks == 2

\* ---------------------------------------------------------------- values
Val(kind, id, path) == [kind |-> kind, id |-> id, path |-> path]

App == Val("app", 0, <<>>)
Context(n) == Val("context", n, <<>>)
ForeignContext == Val("context", 0, <<>>)
Plain == Val("object", 0, <<>>)
ModuleVal(path) == Val("module", 0, path)
BuiltinVal(id) == Val("builtin", 0, <<id>>)
NoneVal == Val("None", 0, <<>>)
NoResult == Val("noresult", 0, <<>>)

NoExc == "none"

\* "Configured shell `%s' not available" % self.name
ShellNotAvailable(name) ==
    CASE name = "python" -> "Configured shell `python' not available"
      [] name = "ipython" -> "Configured shell `ipython' not available"
      [] name = "bpython" -> "Configured shell `bpython' not available"

\* Failures that are instances of Exception; SystemExit is a BaseException
\* that is not one.
ExceptionClasses == {"SyntaxError", "NameError", "AttributeError", "TypeError",
                     "ImportError", "KeyError", "CallbackError", "ContextError",
                     "AssertionError"}
                    \cup {ShellNotAvailable(b) : b \in {"python", "ipython", "bpython"}}

\* the clause `except Exception as e`
CaughtByExceptException(e) == e \in ExceptionClasses

\* ------------------------------------------------------------ the world
Modules == {<<"os">>, <<"os", "path">>, <<"score">>, <<"score", "shell">>}
Functions == {<<"os", "path", "join">>}
BuiltinNames == {"exit", "len"}

\* __import__(name): the top-level package on success
ImportOk(name) == name \in Modules
Import(name) == ModuleVal(<<name[1]>>)

\* ------------------------------------------------------------------ ast
Load == [type |-> "Load"]
Constant == [type |-> "Constant"]
Name(id) == [type |-> "Name", id |-> id]
Attribute(value, attr) == [type |-> "Attribute", value |-> value, attr |-> attr]
Call(func, args) == [type |-> "Call", func |-> func, args |-> args]
BinOp(left, right) == [type |-> "BinOp", left |-> left, right |-> right]
Expr(value) == [type |-> "Expr", value |-> value]
Module(body) == [type |-> "Module", body |-> body]
SyntaxError == [type |-> "SyntaxError"]

Commands == {"(", "1 + 1", "score", "ctx", "x", "exit()",
             "os.path.join('a', 'b')", "foo().bar", "score.shell"}
NoCommand == ""

\* ast.parse(command)
Parse(c) ==
    CASE c = "(" -> SyntaxError
      [] c = "1 + 1" -> Module(Expr(BinOp(Constant, Constant)))
      [] c = "score" -> Module(Expr(Name("score")))
      [] c = "ctx" -> Module(Expr(Name("ctx")))
      [] c = "x" -> Module(Expr(Name("x")))
      [] c = "exit()" -> Module(Expr(Call(Name("exit"), <<>>)))
      [] c = "os.path.join('a', 'b')" ->
            Module(Expr(Call(Attribute(Attribute(Name("os"), "path"), "join"),
                             <<Constant, Constant>>)))
      [] c = "foo().bar" ->
            Module(Expr(Attribute(Call(Name("foo"), <<>>), "bar")))
      [] c = "score.shell" -> Module(Expr(Attribute(Name("score"), "shell")))

\* ast.iter_child_nodes(n)
Children(n) ==
    CASE n.type = "Module" -> <<n.body>>
      [] n.type = "Expr" -> <<n.value>>
      [] n.type = "Name" -> <<Load>>
      [] n.type = "Attribute" -> <<n.value, Load>>
      [] n.type = "Call" -> <<n.func>> \o n.args
      [] n.type = "BinOp" -> <<n.left, [type |-> "Add"], n.right>>
      [] OTHER -> <<>>

\* ast.walk(n): breadth first over the queue
RECURSIVE Walk(_)
Walk(todo) ==
    IF todo = <<>> THEN <<>>
    ELSE <<Head(todo)>> \o Walk(Tail(todo) \o Children(Head(todo)))

\* '%s' % x for the value _extract_dotted_path returned (None is <<>>)
Str(name) == IF name = <<>> THEN <<"None">> ELSE name

RECURSIVE _extract_dotted_path(_)
_extract_dotted_path(n) ==
    IF n.type = "Name" THEN <<n.id>>
    ELSE IF n.type = "Attribute"
         THEN Append(Str(_extract_dotted_path(n.value)), n.attr)
         ELSE <<>>

Nodes(c) == Walk(<<Parse(c)>>)

\* the test without its `'.' not in name` half
ShouldBindDotted(name, e) == name \notin DOMAIN e

\* `'.' not in name and name not in env`
ShouldBind(name, e) == Len(name) = 1 /\ name \notin DOMAIN e

Bind(e, name, v) == [k \in DOMAIN e \cup {name} |-> IF k = name THEN v ELSE e[k]]

\* ----------------------------------------------------------------- eval
Ok(v) == [ok |-> TRUE, val |-> v, err |-> NoExc]
Fail(x) == [ok |-> FALSE, val |-> NoResult, err |-> x]

RECURSIVE EvalNode(_, _)
EvalNode(n, e) ==
    CASE n.type = "Constant" -> Ok(Val("const", 0, <<>>))
      [] n.type = "Name" ->
            IF <<n.id>> \in DOMAIN e THEN Ok(e[<<n.id>>])
            ELSE IF n.id \in BuiltinNames THEN Ok(BuiltinVal(n.id))
            ELSE Fail("NameError")
      [] n.type = "Attribute" ->
            LET v == EvalNode(n.value, e) IN
            IF ~v.ok THEN v
            ELSE IF v.val.kind = "module" /\ Append(v.val.path, n.attr) \in Modules
                 THEN Ok(ModuleVal(Append(v.val.path, n.attr)))
            ELSE IF v.val.kind = "module" /\ Append(v.val.path, n.attr) \in Functions
                 THEN Ok(Val("function", 0, Append(v.val.path, n.attr)))
            ELSE Fail("AttributeError")
      [] n.type = "Call" ->
            LET f == EvalNode(n.func, e) IN
            IF ~f.ok THEN f
            ELSE IF f.val = BuiltinVal("exit") THEN Fail("SystemExit")
            ELSE IF f.val.kind = "function" THEN Ok(Val("returned", 0, f.val.path))
            ELSE Fail("TypeError")
      [] n.type = "BinOp" ->
            LET l == EvalNode(n.left, e) IN
            IF ~l.ok THEN l
            ELSE LET r == EvalNode(n.right, e) IN
                 IF ~r.ok THEN r ELSE Ok(Val("const", 0, <<>>))

\* eval(command, env)
Eval(c, e) == EvalNode(Parse(c).body.value, e)

\* ------------------------------------------------------- configuration
\* What a configured callback does to the mapping it receives.
CallbackKinds == {"add_x", "set_ctx", "raise"}

RECURSIVE SeqsUpTo(_, _)
SeqsUpTo(S, n) ==
    IF n = 0 THEN {<<>>}
    ELSE LET shorter == SeqsUpTo(S, n - 1) IN
         shorter \cup {Append(s, x) : s \in {t \in shorter : Len(t) = n - 1}, x \in S}

Backends == {"python", "ipython", "bpython"}

\* How an interactive session ends, and what the user did in it.
Sessions == {"eof", "SystemExit", "rebind_ctx"}

Ev(op, n, obj, err) == [op |-> op, n |-> n, obj |-> obj, err |-> err]

NoPrev == [command |-> NoCommand, outcome |-> "none", result |-> NoResult]

\* ----------------------------------------------------------------- Init
\* init(): the configured module, before any call
Init ==
    /\ ctx \in BOOLEAN
    /\ callbacks \in SeqsUpTo(CallbackKinds, MaxCallbacks)
    /\ backend \in Backends
    /\ autoinstall \in BOOLEAN
    /\ installed \in {{}, {backend} \ {"python"}}
    /\ ncalls = 0
    /\ command = NoCommand
    /\ pc = "idle"
    /\ env = <<>>
    /\ handed = <<>>
    /\ i = 0
    /\ node = 0
    /\ exc = NoExc
    /\ result = NoResult
    /\ log = <<>>
    /\ prev = NoPrev

\* ---------------------------------------------------------- _create_env
\* a mapping created without the application handle
SeedEnvEmpty == <<>>

\* env = {'score': self.score}
SeedEnv == [k \in {<<"score">>} |-> App]

\* `if self.ctx:` before env['ctx'] = self.ctx.Context()
BindsContext(c) == c

\* the list visited back to front
CallbackOrderReversed(cbs) == [j \in 1..Len(cbs) |-> Len(cbs) + 1 - j]

\* the order in which `for callback in self.callbacks` visits the list
CallbackOrder(cbs) == [j \in 1..Len(cbs) |-> j]

\* a handler that destroys without passing the failure on
HandlerArgNone(e) == NoExc

\* the argument the handler passes: env['ctx'].destroy(e)
HandlerArg(e) == e

Outcome == IF pc = "returned" THEN "returned" ELSE IF pc = "raised" THEN exc ELSE "none"

\* __call__(command): enters `with self._create_env()`, which creates the
\* mapping.  prev keeps how the preceding call ended when it was given the
\* same command.
CallFacade(c) ==
    /\ pc \in {"idle", "returned", "raised"}
    /\ ncalls < MaxCalls
    /\ ncalls' = ncalls + 1
    /\ command' = c
    /\ prev' = IF pc # "idle" /\ c = command
               THEN [command |-> command, outcome |-> Outcome, result |-> result]
               ELSE NoPrev
    /\ env' = SeedEnv
    /\ handed' = <<>>
    /\ i' = 1
    /\ node' = 0
    /\ exc' = NoExc
    /\ result' = NoResult
    /\ log' = <<>>
    /\ pc' = "context"
    /\ UNCHANGED <<config, installed>>

\* env['ctx'] = self.ctx.Context(), which may raise
CreateContext ==
    /\ pc = "context"
    /\ IF BindsContext(ctx)
       THEN \E ok \in BOOLEAN :
              IF ok
              THEN /\ env' = Bind(env, <<"ctx">>, Context(ncalls))
                   /\ log' = Append(log, Ev("Context", 0, Context(ncalls), NoExc))
                   /\ pc' = "callbacks"
                   /\ exc' = exc
              ELSE /\ exc' = "ContextError"
                   /\ log' = Append(log, Ev("Context", 0, NoneVal, "ContextError"))
                   /\ pc' = "except"
                   /\ env' = env
       ELSE /\ pc' = "callbacks"
            /\ UNCHANGED <<env, log, exc>>
    /\ UNCHANGED <<config, handed, installed, ncalls, command, i, node, result, prev>>

\* callback(env) for the next callback of the loop
RunCallback ==
    /\ pc = "callbacks"
    /\ i <= Len(callbacks)
    /\ LET n == CallbackOrder(callbacks)[i]
           kind == callbacks[n] IN
       /\ log' = Append(log, Ev("callback", n, NoneVal,
                                IF kind = "raise" THEN "CallbackError" ELSE NoExc))
       /\ CASE kind = "add_x" ->
                 /\ env' = Bind(env, <<"x">>, Plain)
                 /\ UNCHANGED <<exc, pc>>
            [] kind = "set_ctx" ->
                 /\ env' = Bind(env, <<"ctx">>, ForeignContext)
                 /\ UNCHANGED <<exc, pc>>
            [] kind = "raise" ->
                 /\ exc' = "CallbackError"
                 /\ pc' = "except"
                 /\ env' = env
    /\ i' = i + 1
    /\ UNCHANGED <<config, handed, installed, ncalls, command, node, result, prev>>

\* yield env
Yield ==
    /\ pc = "callbacks"
    /\ i > Len(callbacks)
    /\ log' = Append(log, Ev("yield", 0, NoneVal, NoExc))
    /\ pc' = "body"
    /\ handed' = env
    /\ UNCHANGED <<config, installed, ncalls, command, env, i, node, exc, result, prev>>

\* after the yield, the body having completed: env['ctx'].destroy()
ExitNormal ==
    /\ pc = "exit"
    /\ IF ctx
       THEN log' = Append(log, Ev("destroy", 0, env[<<"ctx">>], NoExc))
       ELSE log' = log
    /\ pc' = "returned"
    /\ UNCHANGED <<config, handed, installed, ncalls, command, env, i, node, exc, result, prev>>

\* the body raised: the failure is thrown into the generator at the yield
Throw ==
    /\ pc = "throw"
    /\ pc' = IF CaughtByExceptException(exc) THEN "except" ELSE "raised"
    /\ UNCHANGED <<config, handed, installed, ncalls, command, env, i, node, exc, result, log, prev>>

\* except Exception as e: env['ctx'].destroy(e); raise e
Except ==
    /\ pc = "except"
    /\ IF ctx
       THEN IF <<"ctx">> \in DOMAIN env
            THEN /\ log' = Append(log, Ev("destroy", 0, env[<<"ctx">>], HandlerArg(exc)))
                 /\ exc' = exc
            ELSE /\ exc' = "KeyError"
                 /\ log' = log
       ELSE UNCHANGED <<log, exc>>
    /\ pc' = "raised"
    /\ UNCHANGED <<config, handed, installed, ncalls, command, env, i, node, result, prev>>

\* ---------------------------------------------------------- Shell.spawn
\* BPythonShell._is_available / IPythonShell._is_available try the import;
\* PythonShell._is_available returns True
_is_available(b, inst) == b = "python" \/ b \in inst

\* the branches with the autoinstall flag ignored
SpawnDecisionAlwaysInstall(available, auto) ==
    IF available THEN "spawn" ELSE "install"

\* the branches of Shell.spawn before _spawn
SpawnDecision(available, auto) ==
    IF available THEN "spawn"
    ELSE IF ~auto THEN "raise" ELSE "install"

\* self.backend.spawn(env): the availability check and what follows from it
SpawnBackend ==
    /\ pc = "body"
    /\ command = NoCommand
    /\ LET d == SpawnDecision(_is_available(backend, installed), autoinstall) IN
       /\ log' = Append(log, Ev("_is_available",
                                IF _is_available(backend, installed) THEN 1 ELSE 0,
                                NoneVal,
                                IF d = "raise" THEN ShellNotAvailable(backend) ELSE NoExc))
       /\ pc' = IF d = "raise" THEN "throw" ELSE d
       /\ exc' = IF d = "raise" THEN ShellNotAvailable(backend) ELSE exc
    /\ UNCHANGED <<config, handed, installed, ncalls, command, env, i, node, result, prev>>

\* self._install(): pip.main(['install', name]) may or may not succeed;
\* PythonShell._install is `assert False`
Install ==
    /\ pc = "install"
    /\ log' = Append(log, Ev("_install", 0, NoneVal,
                             IF backend = "python" THEN "AssertionError" ELSE NoExc))
    /\ IF backend = "python"
       THEN /\ exc' = "AssertionError"
            /\ pc' = "throw"
            /\ installed' = installed
       ELSE /\ \E ok \in BOOLEAN :
                 installed' = IF ok THEN installed \cup {backend} ELSE installed
            /\ pc' = "spawn"
            /\ exc' = exc
    /\ UNCHANGED <<config, handed, ncalls, command, env, i, node, result, prev>>

\* self._spawn(env): imports the backend's library and runs the interactive
\* loop over env; the user may rebind names and may leave with exit()
SpawnShell ==
    /\ pc = "spawn"
    /\ IF ~_is_available(backend, installed)
       THEN /\ exc' = "ImportError"
            /\ log' = Append(log, Ev("_spawn", 0, NoneVal, "ImportError"))
            /\ pc' = "throw"
            /\ UNCHANGED <<env, result>>
       ELSE \E s \in Sessions :
              CASE s = "eof" ->
                     /\ log' = Append(log, Ev("_spawn", 0, NoneVal, NoExc))
                     /\ result' = NoneVal
                     /\ pc' = "exit"
                     /\ UNCHANGED <<env, exc>>
                [] s = "rebind_ctx" ->
                     /\ log' = Append(log, Ev("_spawn", 0, NoneVal, NoExc))
                     /\ env' = Bind(env, <<"ctx">>, ForeignContext)
                     /\ result' = NoneVal
                     /\ pc' = "exit"
                     /\ exc' = exc
                [] s = "SystemExit" ->
                     /\ log' = Append(log, Ev("_spawn", 0, NoneVal, "SystemExit"))
                     /\ exc' = "SystemExit"
                     /\ pc' = "throw"
                     /\ UNCHANGED <<env, result>>
    /\ UNCHANGED <<config, handed, installed, ncalls, command, i, node, prev>>

\* ------------------------------------------------- __call__(command)
\* ast.parse(command)
ParseCommand ==
    /\ pc = "body"
    /\ command # NoCommand
    /\ IF Parse(command) = SyntaxError
       THEN /\ exc' = "SyntaxError"
            /\ pc' = "throw"
            /\ node' = node
       ELSE /\ node' = 1
            /\ pc' = "resolve"
            /\ exc' = exc
    /\ log' = Append(log, Ev("parse", 0, NoneVal,
                             IF Parse(command) = SyntaxError THEN "SyntaxError" ELSE NoExc))
    /\ UNCHANGED <<config, handed, installed, ncalls, command, env, i, result, prev>>

\* one iteration of `for node in ast.walk(...)`
ResolveNode ==
    /\ pc = "resolve"
    /\ node <= Len(Nodes(command))
    /\ LET name == _extract_dotted_path(Nodes(command)[node]) IN
       IF name = <<>>
       THEN UNCHANGED <<env, log>>
       ELSE IF ImportOk(name)
            THEN /\ log' = Append(log, Ev("__import__", 0, ModuleVal(name), NoExc))
                 /\ env' = IF ShouldBind(name, env)
                           THEN Bind(env, name, Import(name)) ELSE env
            ELSE /\ log' = Append(log, Ev("__import__", 0, ModuleVal(name), "ImportError"))
                 /\ env' = env
    /\ node' = node + 1
    /\ UNCHANGED <<config, handed, installed, ncalls, command, pc, i, exc, result, prev>>

\* return eval(command, env)
EvalCommand ==
    /\ pc = "resolve"
    /\ node > Len(Nodes(command))
    /\ LET r == Eval(command, env) IN
       /\ log' = Append(log, Ev("eval", 0, r.val, r.err))
       /\ result' = r.val
       /\ exc' = r.err
       /\ pc' = IF r.ok THEN "exit" ELSE "throw"
    /\ env' = IF <<"__builtins__">> \in DOMAIN env THEN env
              ELSE Bind(env, <<"__builtins__">>, ModuleVal(<<"builtins">>))
    /\ UNCHANGED <<config, handed, installed, ncalls, command, i, node, prev>>

Next ==
    \/ \E c \in Commands \cup {NoCommand} : CallFacade(c)
    \/ CreateContext
    \/ RunCallback
    \/ Yield
    \/ SpawnBackend
    \/ Install
    \/ SpawnShell
    \/ ParseCommand
    \/ ResolveNode
    \/ EvalCommand
    \/ ExitNormal
    \/ Throw
    \/ Except

Spec == Init /\ [][Next]_vars

\* ======================================================== properties
Ended == pc \in {"returned", "raised"}

Events(op) == SelectSeq(log, LAMBDA e : e.op = op)

Positions(op) == {p \in 1..Len(log) : log[p].op = op}

Yielded == Positions("yield") # {}

Destroys == Events("destroy")
NoErrorDestroys == SelectSeq(Destroys, LAMBDA e : e.err = NoExc)
ErrorDestroys == SelectSeq(Destroys, LAMBDA e : e.err # NoExc)

ContextCreated == \E p \in Positions("Context") : log[p].err = NoExc

BodyOps == {"_is_available", "_install", "_spawn", "parse", "__import__", "eval"}
BodyEvents == SelectSeq(log, LAMBDA e : e.op \in BodyOps)

\* the failure the body raised, NoExc if it raised none (so far)
BodyFailure ==
    IF BodyEvents = <<>> \/ BodyEvents[Len(BodyEvents)].op = "__import__"
    THEN NoExc
    ELSE BodyEvents[Len(BodyEvents)].err

BodyCompleted == Ended /\ Yielded /\ BodyFailure = NoExc
BodyRaised == Ended /\ Yielded /\ BodyFailure # NoExc

\* the failure raised while the environment was being built, NoExc if none
BuildFailure ==
    IF \E p \in 1..Len(log) : log[p].op \in {"Context", "callback"} /\ log[p].err # NoExc
    THEN log[CHOOSE p \in 1..Len(log) :
                log[p].op \in {"Context", "callback"} /\ log[p].err # NoExc].err
    ELSE NoExc

CtxKey == <<"ctx">>
ScoreKey == <<"score">>

\* ---------------------------------------------------------------- C1
\* C1: with a context factory, a call whose body completes calls destroy()
\* exactly once and destroy(error) never; a call whose body raises calls
\* destroy(error) exactly once and destroy() never; a created context is
\* never destroyed zero times or twice.  Without a factory neither form is
\* called.
C1_DestroyedExactlyOnce ==
    Ended =>
      /\ (ctx /\ BodyCompleted) =>
            (Len(NoErrorDestroys) = 1 /\ Len(ErrorDestroys) = 0)
      /\ (ctx /\ BodyRaised) =>
            (Len(ErrorDestroys) = 1 /\ Len(NoErrorDestroys) = 0)
      /\ (ctx /\ ContextCreated) => Len(Destroys) = 1
      /\ ~ctx => Len(Destroys) = 0

\* ---------------------------------------------------------------- C2
\* C2: when the body raises E, destroy is called with exactly E and the
\* failure reaching the caller of __call__ is E.
C2_DestroyedWithAndReraised ==
    (ctx /\ BodyRaised) =>
      /\ Len(Destroys) = 1
      /\ Destroys[1].err = BodyFailure
      /\ pc = "raised"
      /\ exc = BodyFailure

\* ---------------------------------------------------------------- C3
ParseFailed == \E p \in Positions("parse") : log[p].err = "SyntaxError"

\* C3 as stated: on a parse failure the caller gets the parser's failure and
\* the context is destroyed in the no-error form exactly once, never with
\* the error.
C3_ParseFailureCleanDestroy ==
    (Ended /\ ctx /\ ParseFailed) =>
      /\ pc = "raised" /\ exc = "SyntaxError"
      /\ Len(NoErrorDestroys) = 1
      /\ Len(ErrorDestroys) = 0

\* C3 amended: on a parse failure the caller gets the parser's failure; the
\* parse runs inside the body, so teardown takes the error path:
\* destroy(parse failure) is called exactly once on the object bound under
\* 'ctx', and destroy() is never called.  Without a factory nothing is
\* destroyed.
C3_ParseFailureDestroyedWithError ==
    (Ended /\ ParseFailed) =>
      /\ pc = "raised" /\ exc = "SyntaxError"
      /\ Len(NoErrorDestroys) = 0
      /\ ctx => /\ Len(ErrorDestroys) = 1
                /\ ErrorDestroys[1].err = "SyntaxError"
                /\ ErrorDestroys[1].obj = env[CtxKey]
      /\ ~ctx => Len(Destroys) = 0

C3_Witness == Ended /\ ctx /\ ParseFailed /\ Len(ErrorDestroys) = 1

\* ---------------------------------------------------------------- C4
\* the indices of the callbacks invoked so far, in the order of invocation
Invoked == [p \in 1..Len(Events("callback")) |-> Events("callback")[p].n]

InvokedOnce(j) == Cardinality({p \in DOMAIN Invoked : Invoked[p] = j}) = 1

\* callbacks are invoked in configured order, none twice
InConfiguredOrder == \A p \in DOMAIN Invoked : Invoked[p] = p

\* no body event precedes a callback event
CallbacksBeforeBody ==
    \A p \in Positions("callback") : \A q \in 1..Len(log) :
        log[q].op \in BodyOps \cup {"yield"} => p < q

\* a callback is invoked only with the handle (and the context) bound
BoundBeforeCallbacks ==
    pc = "callbacks" =>
      /\ ScoreKey \in DOMAIN env
      /\ ctx => (CtxKey \in DOMAIN env /\ Positions("Context") # {})

\* C4 as stated: in every facade call each configured callback is invoked
\* exactly once, in configured order, after the handle and the context are
\* bound and before the body begins.
C4_EveryCallEachCallbackOnce ==
    /\ Ended => \A j \in 1..Len(callbacks) : InvokedOnce(j)
    /\ InConfiguredOrder
    /\ BoundBeforeCallbacks
    /\ CallbacksBeforeBody

\* C4 amended: in every facade call the invoked callbacks are a prefix of
\* the configured list in configured order (none twice), each runs with the
\* handle (and the context) already bound, and none runs once the body has
\* begun; whenever the body begins, and so in every call whose environment
\* build does not fail, each configured callback has been invoked exactly
\* once and has returned.
C4_CallbacksOnceInOrderBeforeBody ==
    /\ Len(Invoked) <= Len(callbacks)
    /\ InConfiguredOrder
    /\ BoundBeforeCallbacks
    /\ CallbacksBeforeBody
    /\ Yielded =>
         /\ \A j \in 1..Len(callbacks) : InvokedOnce(j)
         /\ \A p \in Positions("callback") : log[p].err = NoExc
    /\ (Ended /\ BuildFailure = NoExc) => \A j \in 1..Len(callbacks) : InvokedOnce(j)

C4_Witness == pc = "body" /\ Len(callbacks) >= 2 /\ Len(Invoked) = Len(callbacks)

\* ---------------------------------------------------------------- C5
Count(op) == Cardinality(Positions(op))

SpawnCall == command = NoCommand /\ Yielded

\* what _is_available() answered in this call
WasAvailable == \E p \in Positions("_is_available") : log[p].n = 1

\* C5: Shell.spawn calls _spawn and not _install when the backend is
\* available; _install exactly once and then _spawn when it is unavailable
\* and autoinstall is set; and fails with the failure naming the backend,
\* calling neither, when it is unavailable and autoinstall is not set.
\* _spawn never precedes the availability check and _install is never
\* called with autoinstall off.
C5_SpawnProtocol ==
    /\ \A p \in Positions("_spawn") : \E q \in Positions("_is_available") : q < p
    /\ \A p \in Positions("_install") :
          /\ autoinstall
          /\ \E q \in Positions("_is_available") : q < p /\ log[q].n = 0
    /\ (Ended /\ SpawnCall) =>
         /\ Count("_is_available") = 1
         /\ WasAvailable => (Count("_spawn") = 1 /\ Count("_install") = 0)
         /\ (~WasAvailable /\ autoinstall) =>
               /\ Count("_install") = 1
               /\ Count("_spawn") = 1
               /\ \A p \in Positions("_install") : \A q \in Positions("_spawn") : p < q
         /\ (~WasAvailable /\ ~autoinstall) =>
               /\ pc = "raised"
               /\ exc = ShellNotAvailable(backend)
               /\ Count("_install") = 0
               /\ Count("_spawn") = 0

C5_Witness ==
    /\ Ended /\ SpawnCall /\ ~WasAvailable /\ autoinstall
    /\ Count("_install") = 1 /\ Count("_spawn") = 1

\* ---------------------------------------------------------------- C6
\* the dotted paths written in each expression
DottedPathsIn(c) ==
    CASE c = "score" -> {<<"score">>}
      [] c = "ctx" -> {<<"ctx">>}
      [] c = "x" -> {<<"x">>}
      [] c = "exit()" -> {<<"exit">>}
      [] c = "os.path.join('a', 'b')" ->
            {<<"os">>, <<"os", "path">>, <<"os", "path", "join">>}
      [] c = "foo().bar" -> {<<"foo">>}
      [] c = "score.shell" -> {<<"score">>, <<"score", "shell">>}
      [] OTHER -> {}

ResolutionDone == pc = "resolve" /\ node > Len(Nodes(command))

\* C6: name resolution never overwrites or removes a key of the mapping it
\* was handed; it adds a key N, bound to the imported module, exactly when N
\* is a dotted path of the expression that imports, has no dot and was not
\* a key; a failing import is skipped without raising; a dotted path is
\* never bound.
C6_ResolutionBindsOnlyNewModules ==
    /\ pc = "resolve" =>
         /\ exc = NoExc
         /\ \A k \in DOMAIN handed : k \in DOMAIN env /\ env[k] = handed[k]
         /\ \A k \in DOMAIN env \ DOMAIN handed :
               /\ Len(k) = 1
               /\ k \in DottedPathsIn(command)
               /\ k \in Modules
               /\ env[k] = ModuleVal(k)
    /\ ResolutionDone =>
         \A k \in DottedPathsIn(command) :
            (k \in Modules /\ Len(k) = 1 /\ k \notin DOMAIN handed) => k \in DOMAIN env
    /\ (Ended /\ Positions("parse") # {} /\ ~ParseFailed) => Positions("eval") # {}

C6_Witness ==
    /\ ResolutionDone
    /\ command = "os.path.join('a', 'b')"
    /\ <<"os">> \in DOMAIN env \ DOMAIN handed
    /\ \E p \in Positions("__import__") : log[p].err = "ImportError"

\* ---------------------------------------------------------------- C7
\* C7: with a context factory, every destroy of a call is invoked on the
\* instance _create_env created in that call, and a created instance is
\* destroyed by the time the call ends, whatever the callbacks and the body
\* bind in the mapping.
C7_DestroysItsOwnContext ==
    (Ended /\ ctx) =>
      /\ \A p \in Positions("destroy") : log[p].obj = Context(ncalls)
      /\ ContextCreated =>
            \E p \in Positions("destroy") : log[p].obj = Context(ncalls)

\* ---------------------------------------------------------------- C8
\* C8 as stated: the mapping handed to the body contains 'score', and
\* contains 'ctx' only if a context factory was configured.
C8_HandedMappingKeys ==
    pc = "body" =>
      /\ ScoreKey \in DOMAIN env
      /\ CtxKey \in DOMAIN env => ctx

CallbackBoundCtx ==
    \E p \in Positions("callback") : callbacks[log[p].n] = "set_ctx" /\ log[p].err = NoExc

\* C8 amended: the mapping handed to the body contains 'score'; it contains
\* 'ctx' whenever a context factory was configured; without a factory
\* _create_env binds no 'ctx', so the key is present only if a configured
\* callback bound it.
C8_HandedMappingKeysUnlessCallback ==
    /\ pc = "body" =>
         /\ env = handed
         /\ ScoreKey \in DOMAIN env
         /\ ctx => CtxKey \in DOMAIN env
         /\ (CtxKey \in DOMAIN env /\ ~ctx) => CallbackBoundCtx
    /\ (pc = "callbacks" /\ i = 1) => (CtxKey \in DOMAIN env <=> ctx)

C8_Witness ==
    /\ pc = "body" /\ ~ctx /\ Len(callbacks) >= 1
    /\ CtxKey \in DOMAIN env /\ ScoreKey \in DOMAIN env

\* ---------------------------------------------------------------- C9
\* C9: two calls in sequence with the same expression return the same
\* result; the second starts from a fresh mapping holding nothing the first
\* call bound; each call creates and destroys its own context instance.
C9_SequentialCallsIndependent ==
    /\ (Ended /\ Yielded /\ command # NoCommand /\ prev # NoPrev
          /\ prev.outcome \notin {"KeyError", "ContextError"}) =>
          /\ prev.outcome = Outcome
          /\ prev.result = result
    /\ (pc = "context" /\ ncalls >= 2) => env = [k \in {ScoreKey} |-> App]
    /\ (Ended /\ ncalls >= 2 /\ ctx /\ ContextCreated) =>
          /\ \A p \in Positions("Context") : log[p].obj = Context(ncalls)
          /\ \A p \in Positions("destroy") : log[p].obj = Context(ncalls)
          /\ Len(Destroys) = 1

\* --------------------------------------------------------------- C10
\* C10: a failure E raised while the environment is built (by Context() or
\* by a callback) reaches the caller as E; the body never runs and the
\* remaining callbacks are not invoked.
C10_BuildFailureReachesCaller ==
    (Ended /\ BuildFailure # NoExc) =>
      /\ pc = "raised"
      /\ exc = BuildFailure
      /\ ~Yielded
      /\ BodyEvents = <<>>
      /\ \A p \in 1..Len(log) :
            (log[p].op \in {"Context", "callback"} /\ log[p].err # NoExc) =>
               \A q \in Positions("callback") : q <= p

====
